---------------------------- MODULE Spec2Model ----------------------------
(***************************************************************************)
(* cfresolve: the resolve / append / record / advance loop of `app`, the   *)
(* classification done by `resolve_domain`, the rows of `ResolveResult`,    *)
(* and the rolling table of `TabularProgress` with its refresh thread.      *)
(*                                                                         *)
(* Text is modelled as sequences of one-character strings, so that joining *)
(* fields, appending to the file and splitting it again are computed.       *)
(***************************************************************************)
EXTENDS Integers, Sequences, FiniteSets, TLC

(***************************************************************************)
(* Bounds of the model.                                                    *)
(***************************************************************************)
\* longest input sequence read_domains hands to the loop
MaxDomains == 3
\* largest table_max_rows a TabularProgress is constructed with (TPSpec)
MaxCap == 2
\* number of update_table(row) calls made on one TabularProgress (TPSpec)
MaxCalls == 3

(***************************************************************************)
(* Text helpers.                                                           *)
(***************************************************************************)
Digits == <<"0", "1", "2", "3", "4", "5", "6", "7", "8", "9">>

DigitVal(c) == (CHOOSE k \in 1..10 : Digits[k] = c) - 1

RECURSIVE Join(_, _)
\* sep.join(parts)
Join(sep, parts) ==
    IF parts = <<>> THEN <<>>
    ELSE IF Len(parts) = 1 THEN parts[1]
    ELSE parts[1] \o sep \o Join(sep, Tail(parts))

RECURSIVE SplitFrom(_, _, _, _)
SplitFrom(s, sep, cur, k) ==
    IF k > Len(s) THEN <<cur>>
    ELSE IF s[k] = sep THEN <<cur>> \o SplitFrom(s, sep, <<>>, k + 1)
    ELSE SplitFrom(s, sep, Append(cur, s[k]), k + 1)

\* s.split(sep) for a one-character separator
Split(s, sep) == SplitFrom(s, sep, <<>>, 1)

RECURSIVE ParseDec(_)
\* int(s) for a decimal numeral
ParseDec(s) ==
    IF s = <<>> THEN 0
    ELSE 10 * ParseDec(SubSeq(s, 1, Len(s) - 1)) + DigitVal(s[Len(s)])

RECURSIVE FormatDec(_)
\* str(n) for a natural number
FormatDec(n) ==
    IF n < 10 THEN <<Digits[n + 1]>>
    ELSE FormatDec(n \div 10) \o <<Digits[(n % 10) + 1]>>

(***************************************************************************)
(* ResolveResultType (str, Enum): the members are their string values.     *)
(***************************************************************************)
OK == <<"o", "k">>
BLOCKED == <<"b", "l", "o", "c", "k", "e", "d">>
NOT_RESOLVED == <<"n", "o", "t", "_", "r", "e", "s", "o", "l", "v", "e", "d">>

ResolveResultType == {OK, BLOCKED, NOT_RESOLVED}

(***************************************************************************)
(* ipaddress: an IPv4Address is its four octets; None is the empty tuple.  *)
(***************************************************************************)
NoIP == <<>>

\* ipaddress.ip_address(s) for a dotted quad s
ip_address(s) == [k \in 1..4 |-> ParseDec(Split(s, ".")[k])]

\* str(ip)
ip_str(ip) == Join(<<".">>, [k \in 1..Len(ip) |-> FormatDec(ip[k])])

\* a variant that forgets the loopback block
is_private_NoLoopback(ip) ==
    \/ ip[1] = 0
    \/ ip[1] = 10
    \/ ip[1] = 169 /\ ip[2] = 254
    \/ ip[1] = 172 /\ ip[2] \in 16..31
    \/ ip[1] = 192 /\ ip[2] = 168
    \/ ip[1] \in 240..255

\* IPv4Address.is_private: the main reserved IPv4 blocks
is_private(ip) ==
    \/ ip[1] = 0
    \/ ip[1] = 10
    \/ ip[1] = 127
    \/ ip[1] = 169 /\ ip[2] = 254
    \/ ip[1] = 172 /\ ip[2] \in 16..31
    \/ ip[1] = 192 /\ ip[2] = 168
    \/ ip[1] \in 240..255

(***************************************************************************)
(* ResolveResult and its two row forms.                                    *)
(***************************************************************************)
ResolveResult(d, ip, r) == [domain |-> d, ip |-> ip, result |-> r]

NoResult == ResolveResult(<<>>, NoIP, <<>>)

FAIL == <<"F", "A", "I", "L">>

Red(s) == <<"[", "r", "e", "d", "]">> \o s \o <<"[", "/", "]">>

to_rich_row(r) ==
    IF r.result = OK THEN <<r.domain, ip_str(r.ip), <<>> >>
    ELSE <<r.domain, Red(FAIL), Red(r.result)>>

csv_row(r) ==
    IF r.result = OK THEN <<r.domain, ip_str(r.ip), <<>> >>
    ELSE <<r.domain, FAIL, r.result>>


(***************************************************************************)
(* The environment: what one socket.gethostbyname call can do.             *)
(***************************************************************************)
\* input domains (duplicates happen: two values, sequences of up to MaxDomains)
DomainSet == {<<"a">>, <<"b", ".", "c">>}

RECURSIVE SeqsUpTo(_, _)
SeqsUpTo(S, n) ==
    IF n = 0 THEN {<<>>}
    ELSE LET shorter == SeqsUpTo(S, n - 1)
         IN  shorter \cup {Append(q, x) : q \in {p \in shorter : Len(p) = n - 1}, x \in S}

\* dotted quads gethostbyname may return, by the range they lie in:
\* a public address; an RFC 1918 address and the loopback address
PublicLiterals == {<<"8", ".", "8", ".", "8", ".", "8">>}

PrivateLiterals ==
    { <<"1", "0", ".", "0", ".", "0", ".", "1">>,
      <<"1", "2", "7", ".", "0", ".", "0", ".", "1">> }

AddrSet == PublicLiterals \cup PrivateLiterals

\* outcomes of the lookup: an address, socket.gaierror, or any other exception
\* (gethostbyname raises UnicodeError for a label the idna codec rejects)
Lookups ==
    {[kind |-> "addr", addr |-> a] : a \in AddrSet}
        \cup {[kind |-> "gaierror", addr |-> <<>>], [kind |-> "error", addr |-> <<>>]}

Returned(v) == [raised |-> FALSE, value |-> v]

Raised == [raised |-> TRUE, value |-> NoResult]

\* a variant that keeps the address of a blocked result
resolve_domain_KeepsAddress(domain, l) ==
    IF l.kind = "addr"
    THEN LET ip == ip_address(l.addr)
         IN  IF is_private(ip)
             THEN Returned(ResolveResult(domain, ip, BLOCKED))
             ELSE Returned(ResolveResult(domain, ip, OK))
    ELSE IF l.kind = "gaierror"
    THEN Returned(ResolveResult(domain, NoIP, NOT_RESOLVED))
    ELSE Raised

\* resolve_domain(domain) when the lookup does l
resolve_domain(domain, l) ==
    IF l.kind = "addr"
    THEN LET ip == ip_address(l.addr)
         IN  IF is_private(ip)
             THEN Returned(ResolveResult(domain, NoIP, BLOCKED))
             ELSE Returned(ResolveResult(domain, ip, OK))
    ELSE IF l.kind = "gaierror"
    THEN Returned(ResolveResult(domain, NoIP, NOT_RESOLVED))
    ELSE Raised

(***************************************************************************)
(* TabularProgress.                                                        *)
(***************************************************************************)
\* table_max_rows of the TabularProgress that app constructs
table_max_rows == 20

\* a variant that evicts the newest row instead of the oldest
DequeAppend_EvictNewest(q, x, n) ==
    IF n = 0 THEN q
    ELSE IF Len(q) >= n THEN Append(SubSeq(q, 1, n - 1), x)
    ELSE Append(q, x)

\* deque(maxlen=n).append(x)
DequeAppend(q, x, n) ==
    IF n = 0 THEN q
    ELSE IF Len(q) >= n THEN Append(Tail(q), x)
    ELSE Append(q, x)

\* Table() followed by the three add_column calls
NewTable ==
    [ columns |-> << [header |-> "Domain", width |-> 45],
                     [header |-> "IP", width |-> 15],
                     [header |-> "Note", width |-> 15] >>,
      rows |-> <<>> ]

\* table.add_row(*row_cells)
add_row(t, row_cells) == [t EXCEPT !.rows = Append(@, row_cells)]

\* the table a complete update_table builds from window w
TableOf(w) == [NewTable EXCEPT !.rows = w]

NoRow == <<>>

VARIABLES
    domains,      \* the list read_domains returned
    it,           \* how many domains the for loop has taken
    pc,           \* where app is
    result,       \* the local `result` of the loop body
    file,         \* the text of the output file
    completed,    \* task.completed
    total,        \* task.total
    maxlen,       \* self.results.maxlen
    results,      \* self.results, the window
    table,        \* self.table
    ut,           \* where update_table is
    arg,          \* update_table's parameter `result` (NoRow for None)
    local,        \* update_table's local `table`
    k,            \* position of `for row_cells in self.results`
    rendered,     \* what the refresh thread's last get_renderable returned
    abortCause,   \* the exception that left the loop, if any
    looked,       \* history: the outcome of every lookup made
    emitted,      \* history: every ResolveResult resolve_domain returned
    attempts,     \* history: number of appends to the file attempted
    written,      \* history: the csv_row of every append that succeeded
    recorded      \* history: every row update_table appended to the window

appVars == <<domains, it, pc, result, file, completed, total, abortCause,
             looked, emitted, attempts, written>>

tpVars == <<maxlen, results, table, ut, arg, local, k, recorded>>

vars == <<appVars, tpVars, rendered>>

(***************************************************************************)
(* TabularProgress.__init__: the deque, then update_table() with no row.   *)
(***************************************************************************)
TPInit(n) ==
    /\ maxlen = n
    /\ results = <<>>
    /\ table = TableOf(<<>>)
    /\ ut = "idle"
    /\ arg = NoRow
    /\ local = NewTable
    /\ k = 1
    /\ recorded = <<>>
    /\ rendered = <<>>

\* update_table, lines 89-90
UT_Append ==
    /\ ut = "append"
    /\ IF arg # NoRow
       THEN /\ results' = DequeAppend(results, arg, maxlen)
            /\ recorded' = Append(recorded, arg)
       ELSE UNCHANGED <<results, recorded>>
    /\ ut' = "new"
    /\ UNCHANGED <<maxlen, table, arg, local, k, rendered, appVars>>

\* update_table, lines 91-94
UT_NewTable ==
    /\ ut = "new"
    /\ local' = NewTable
    /\ k' = 1
    /\ ut' = "rows"
    /\ UNCHANGED <<maxlen, results, table, arg, recorded, rendered, appVars>>

\* a variant that fills self.table in place, row by row
UT_AddRow_InPlace ==
    /\ ut = "rows"
    /\ k <= Len(results)
    /\ local' = add_row(local, results[k])
    /\ table' = local'
    /\ k' = k + 1
    /\ UNCHANGED <<maxlen, results, ut, arg, recorded, rendered, appVars>>

\* update_table, lines 96-97: one iteration
UT_AddRow ==
    /\ ut = "rows"
    /\ k <= Len(results)
    /\ local' = add_row(local, results[k])
    /\ k' = k + 1
    /\ UNCHANGED <<maxlen, results, table, ut, arg, recorded, rendered, appVars>>

\* update_table, line 99, and the return
UT_Publish ==
    /\ ut = "rows"
    /\ k > Len(results)
    /\ table' = local
    /\ ut' = "idle"
    /\ UNCHANGED <<maxlen, results, arg, local, k, recorded, rendered, appVars>>

\* the refresh thread: get_renderable reads self.table
Refresh ==
    /\ pc \notin {"done", "aborted"}
    /\ rendered' = <<table>>
    /\ UNCHANGED <<appVars, tpVars>>

(***************************************************************************)
(* app: the state when the for loop is about to start.  The output file    *)
(* does not exist yet (app refuses an existing path), the progress object  *)
(* is constructed with table_max_rows=20 and the task with total=len.      *)
(***************************************************************************)
Init ==
    /\ domains \in SeqsUpTo(DomainSet, MaxDomains)
    /\ it = 0
    /\ pc = "for"
    /\ result = NoResult
    /\ file = <<>>
    /\ completed = 0
    /\ total = Len(domains)
    /\ abortCause = "none"
    /\ looked = <<>>
    /\ emitted = <<>>
    /\ attempts = 0
    /\ written = <<>>
    /\ TPInit(table_max_rows)

\* line 196: the for loop takes the next domain, or ends
ForNext ==
    /\ pc = "for"
    /\ IF it < Len(domains)
       THEN it' = it + 1 /\ pc' = "resolve"
       ELSE it' = it /\ pc' = "done"
    /\ UNCHANGED <<domains, result, file, completed, total, abortCause,
                   looked, emitted, attempts, written, tpVars, rendered>>

\* line 197: result = resolve_domain(domain)
Resolve ==
    /\ pc = "resolve"
    /\ \E l \in Lookups :
          LET out == resolve_domain(domains[it], l)
          IN  /\ looked' = Append(looked, l)
              /\ IF out.raised
                 THEN /\ pc' = "aborted"
                      /\ abortCause' = "LookupError"
                      /\ UNCHANGED <<result, emitted>>
                 ELSE /\ pc' = "write"
                      /\ result' = out.value
                      /\ emitted' = Append(emitted, out.value)
                      /\ UNCHANGED abortCause
    /\ UNCHANGED <<domains, it, file, completed, total, attempts, written,
                   tpVars, rendered>>

\* the text one append writes: line 199
Line(r) == Join(<<",">>, csv_row(r))

\* a variant in which a failed append is swallowed and the loop goes on
AppendFail_Swallowed ==
    /\ pc = "write"
    /\ attempts' = attempts + 1
    /\ \E n \in 0..Len(Line(result)) :
          file' = file \o SubSeq(Line(result), 1, n)
    /\ pc' = "record"
    /\ UNCHANGED <<domains, it, result, completed, total, abortCause, looked,
                   emitted, written, tpVars, rendered>>

\* lines 198-199 when open, write or close raises OSError: none, a part or
\* all of the line reached the file; the exception leaves the loop
AppendFail ==
    /\ pc = "write"
    /\ attempts' = attempts + 1
    /\ \E n \in 0..Len(Line(result)) :
          file' = file \o SubSeq(Line(result), 1, n)
    /\ pc' = "aborted"
    /\ abortCause' = "WriteError"
    /\ UNCHANGED <<domains, it, result, completed, total, looked, emitted,
                   written, tpVars, rendered>>

\* lines 198-199: open for append, write the joined row, close
AppendOk ==
    /\ pc = "write"
    /\ attempts' = attempts + 1
    /\ file' = file \o Line(result)
    /\ written' = Append(written, csv_row(result))
    /\ pc' = "record"
    /\ UNCHANGED <<domains, it, result, completed, total, abortCause, looked,
                   emitted, tpVars, rendered>>

\* a variant in which the row is never handed to update_table
CallUpdateTable_Skipped ==
    /\ pc = "record"
    /\ ut = "idle"
    /\ pc' = "recording"
    /\ UNCHANGED <<domains, it, result, file, completed, total, abortCause,
                   looked, emitted, attempts, written, tpVars, rendered>>

\* line 200: the call progress.update_table(result.to_rich_row())
CallUpdateTable ==
    /\ pc = "record"
    /\ ut = "idle"
    /\ arg' = to_rich_row(result)
    /\ ut' = "append"
    /\ pc' = "recording"
    /\ UNCHANGED <<domains, it, result, file, completed, total, abortCause,
                   looked, emitted, attempts, written, maxlen, results, table,
                   local, k, recorded, rendered>>

\* line 200 when building the table raises: app has no handler around it
UpdateTableRaises ==
    /\ pc = "recording"
    /\ ut \in {"new", "rows"}
    /\ ut' = "idle"
    /\ pc' = "aborted"
    /\ abortCause' = "DisplayError"
    /\ UNCHANGED <<domains, it, result, file, completed, total, looked, emitted,
                   attempts, written, maxlen, results, table, arg, local, k,
                   recorded, rendered>>

\* line 201: progress.update(task, advance=1)
Advance ==
    /\ pc = "recording"
    /\ ut = "idle"
    /\ completed' = completed + 1
    /\ pc' = "for"
    /\ UNCHANGED <<domains, it, result, file, total, abortCause, looked, emitted,
                   attempts, written, tpVars, rendered>>

\* line 201 when progress.update raises: app has no handler around it
AdvanceRaises ==
    /\ pc = "recording"
    /\ ut = "idle"
    /\ pc' = "aborted"
    /\ abortCause' = "DisplayError"
    /\ UNCHANGED <<domains, it, result, file, completed, total, looked, emitted,
                   attempts, written, tpVars, rendered>>

Next ==
    \/ ForNext
    \/ Resolve
    \/ AppendOk
    \/ AppendFail
    \/ CallUpdateTable
    \/ UT_Append
    \/ UT_NewTable
    \/ UT_AddRow
    \/ UT_Publish
    \/ UpdateTableRaises
    \/ Advance
    \/ AdvanceRaises
    \/ Refresh

Spec == Init /\ [][Next]_vars

(***************************************************************************)
(* TabularProgress on its own: constructed with any table_max_rows up to   *)
(* MaxCap, its owner calling update_table with any display row (or with no *)
(* row) while the refresh thread runs.                                     *)
(***************************************************************************)
\* the display rows a caller passes: to_rich_row of every result of the resolver
DisplayRows ==
    { to_rich_row(resolve_domain(d, l).value) :
        d \in DomainSet,
        l \in {x \in Lookups : x.kind = "gaierror" \/ x.addr \in PublicLiterals} }

TPSpecInit ==
    /\ domains = <<>>
    /\ it = 0
    /\ pc = "tp"
    /\ result = NoResult
    /\ file = <<>>
    /\ completed = 0
    /\ total = 0
    /\ abortCause = "none"
    /\ looked = <<>>
    /\ emitted = <<>>
    /\ attempts = 0
    /\ written = <<>>
    /\ \E n \in 0..MaxCap : TPInit(n)

\* a call update_table(row) or update_table() by the owner of the object
TPCall ==
    /\ pc = "tp"
    /\ ut = "idle"
    /\ \E row \in DisplayRows \cup {NoRow} :
          /\ row # NoRow => Len(recorded) < MaxCalls
          /\ arg' = row
    /\ ut' = "append"
    /\ UNCHANGED <<appVars, maxlen, results, table, local, k, recorded,
                   rendered>>

TPNext ==
    \/ TPCall
    \/ UT_Append
    \/ UT_NewTable
    \/ UT_AddRow
    \/ UT_Publish
    \/ Refresh

TPSpec == TPSpecInit /\ [][TPNext]_vars

(***************************************************************************)
(* What a reader of the output file sees: the text split into rows at line *)
(* terminators, each row split into fields at commas.                      *)
(***************************************************************************)
FileLines(text) ==
    IF text = <<>> THEN <<>>
    ELSE LET parts == Split(text, "\n")
         IN  IF parts[Len(parts)] = <<>> THEN SubSeq(parts, 1, Len(parts) - 1)
             ELSE parts

ParseCSV(text) == [i \in 1..Len(FileLines(text)) |-> Split(FileLines(text)[i], ",")]

\* the last n elements of s
LastN(s, n) == SubSeq(s, Len(s) - n + 1, Len(s))

Min(a, b) == IF a < b THEN a ELSE b

Fields(row) == {row[i] : i \in 1..Len(row)}

C2_RowPerDomain ==
    LET rows == ParseCSV(file)
    IN  /\ attempts = Len(written) =>
              /\ Len(rows) = Len(written)
              /\ Len(rows) <= Len(domains)
              /\ \A i \in 1..Len(rows) : rows[i][1] = domains[i]
        /\ pc = "done" => Len(rows) = Len(domains)

(***************************************************************************)
(* C3: the window never holds more than table_max_rows rows, and after k   *)
(* rows have been handed to update_table it is exactly the last            *)
(* min(k, table_max_rows) of them, in arrival order.                       *)
(***************************************************************************)
C3_BoundedFifoWindow ==
    /\ Len(results) <= maxlen
    /\ results = LastN(recorded, Min(Len(recorded), maxlen))

\* a full window from which the oldest row has been evicted
C3_Witness ==
    /\ maxlen >= 2
    /\ Len(recorded) > maxlen
    /\ Len(results) = maxlen
    /\ recorded[1] # recorded[Len(recorded)]
    /\ results[Len(results)] = recorded[Len(recorded)]

(***************************************************************************)
(* C4: a failed lookup is a not_resolved result, written and displayed as  *)
(* a normal row, and the only failure that ends the loop early is the      *)
(* output-file write error.                                                *)
(***************************************************************************)
C4_OnlyWriteErrorAborts ==
    /\ \A j \in 1..Len(looked) :
          looked[j].kind = "gaierror" =>
              j <= Len(emitted) /\ emitted[j].result = NOT_RESOLVED
    /\ pc = "aborted" => abortCause = "WriteError"

(***************************************************************************)
(* C5: when the append for the i-th domain fails the loop is left at once  *)
(* with the error: no later domain is resolved, written or displayed, the  *)
(* failing result is not recorded, the counter is not advanced for it and  *)
(* the write is not tried again.                                           *)
(***************************************************************************)
C5_WriteErrorIsFatal ==
    attempts > Len(written) =>
        /\ pc = "aborted"
        /\ abortCause = "WriteError"
        /\ attempts = it
        /\ Len(looked) = it
        /\ Len(written) = it - 1
        /\ Len(recorded) = it - 1
        /\ completed = it - 1
        /\ ut = "idle"

\* the append of the first of several domains failed
C5_Witness ==
    /\ abortCause = "WriteError"
    /\ it = 1
    /\ Len(domains) >= 2
    /\ file # <<>>

(***************************************************************************)
(* C6: a display failure never ends the loop early: when the run is over,  *)
(* every domain has been resolved and its row appended to the file.        *)
(***************************************************************************)
C6_DisplayFailureNotFatal ==
    (abortCause = "DisplayError" /\ pc \in {"done", "aborted"}) =>
        /\ Len(looked) = Len(domains)
        /\ Len(written) = Len(domains)

\* the row the serialization rule gives for result r of lookup l
SerializationRule(r, l) ==
    IF r.result = OK THEN <<r.domain, l.addr, <<>> >>
    ELSE <<r.domain, FAIL, r.result>>

(***************************************************************************)
(* C7: the text of the output file parses back, row by row and field by    *)
(* field, into exactly three fields per result: (domain, address, "") for  *)
(* ok and (domain, "FAIL", outcome name) otherwise.                        *)
(***************************************************************************)
C7_CsvRoundTrip ==
    attempts = Len(written) =>
        ParseCSV(file) =
            [i \in 1..Len(written) |-> SerializationRule(emitted[i], looked[i])]

(***************************************************************************)
(* C8: every result that reaches the file or the window has an address if  *)
(* and only if it is ok, and the address a blocked domain resolved to is   *)
(* in neither its CSV row nor its display row, which show FAIL and the     *)
(* outcome name.                                                           *)
(***************************************************************************)
C8_AddressIffOk ==
    \A j \in 1..Len(emitted) :
        /\ emitted[j].ip # NoIP <=> emitted[j].result = OK
        /\ emitted[j].result = BLOCKED =>
              /\ j <= Len(written) =>
                    /\ looked[j].addr \notin Fields(written[j])
                    /\ written[j] = <<domains[j], FAIL, BLOCKED>>
              /\ j <= Len(recorded) =>
                    /\ looked[j].addr \notin Fields(recorded[j])
                    /\ recorded[j] = <<domains[j], Red(FAIL), Red(BLOCKED)>>

\* a blocked result has been written and recorded
C8_Witness ==
    \E j \in 1..Len(recorded) :
        /\ emitted[j].result = BLOCKED
        /\ looked[j].addr \in PrivateLiterals
        /\ results # <<>>

(***************************************************************************)
(* C9: per domain the loop resolves, appends, records and advances, in     *)
(* that order and with the same result, before the next lookup starts:     *)
(* completed <= recorded <= written <= lookups <= completed + 1, the       *)
(* counter never exceeds total = len(domains), and equals it at the end of *)
(* a run without a fatal error.                                            *)
(***************************************************************************)
C9_StepOrder ==
    /\ completed <= Len(recorded)
    /\ Len(recorded) <= Len(written)
    /\ Len(written) <= Len(looked)
    /\ Len(looked) <= completed + 1
    /\ total = Len(domains)
    /\ completed <= total
    /\ pc = "done" => completed = total
    /\ \A j \in 1..Len(written) : written[j] = csv_row(emitted[j])
    /\ \A j \in 1..Len(recorded) : recorded[j] = to_rich_row(emitted[j])
    /\ \A j \in 1..Len(emitted) : emitted[j].domain = domains[j]

\* a run of several domains has ended normally
C9_Witness ==
    /\ pc = "done"
    /\ total >= 2
    /\ completed = total
    /\ Len(recorded) = total

\* rows handed over by calls that have returned
CompletedRows ==
    IF ut \in {"new", "rows"} /\ arg # NoRow THEN Len(recorded) - 1 ELSE Len(recorded)

\* the tables those calls built, and the empty first table
CompletedTables ==
    { [ columns |-> << [header |-> "Domain", width |-> 45],
                       [header |-> "IP", width |-> 15],
                       [header |-> "Note", width |-> 15] >>,
        rows |-> LastN(SubSeq(recorded, 1, j), Min(j, maxlen)) ] :
      j \in 0..CompletedRows }

(***************************************************************************)
(* C10: with the refresh thread running beside update_table, every table   *)
(* get_renderable returns is a completely built one, whose rows are the    *)
(* window as of some completed update_table call (or the empty first       *)
(* table), and a redraw changes neither the window nor the table.          *)
(***************************************************************************)
C10_NoTornRead ==
    /\ [](table \in CompletedTables)
    /\ [](rendered # <<>> => rendered[1] \in CompletedTables)
    /\ [][rendered' # rendered => UNCHANGED <<results, table, local>>]_vars

\* a redraw between the append to the window and the assignment of the new table
C10_Witness ==
    /\ ut = "rows"
    /\ arg # NoRow
    /\ Len(results) = 2
    /\ k = 2
    /\ rendered # <<>>
    /\ rendered[1].rows # results
    /\ rendered[1].rows # <<>>

=============================================================================
